---------------------------- MODULE Spec2Model ----------------------------
(* velox/velox.c: the workspace registry, the focus/arrangement commands   *)
(* and their side effects on the windowing collaborator.                    *)
(*                                                                          *)
(* A window is an integer identity; an intrusive list is the sequence of    *)
(* the windows linked into it, in list order; a link pointer is the window  *)
(* it is embedded in, or HEAD for the list's sentinel.  A command is one    *)
(* action: its C body is translated statement by statement as a function    *)
(* on a machine record m (the globals the command reads and writes plus     *)
(* the trace of collaborator calls it has issued so far).                   *)
EXTENDS Integers, Sequences, FiniteSets, TLC

\* ------------------------------------------------------------------ bounds
NumWorkspaces == 2
NumWindows == 3
NumLayouts == 2
NumSources == 2

Windows == 1 .. NumWindows
Indices == 0 .. (NumWorkspaces - 1)

\* ------------------------------------------------------------- link values
\* focus(NULL): no window holds input focus
NULL == 0
\* &workspace->tiled.windows.head: the sentinel link of a tiled list
HEAD == -1
\* a link computed from a cursor that is not linked into the list it is
\* used with (the neighbour belongs to some other list)
DANGLING == -2

VARIABLES
    workspaces,          \* index -> struct velox_workspace
    active_workspace,    \* index of the active workspace
    floating,            \* window -> window->floating
    shown,               \* windows currently shown (show_window/hide_window)
    input_focus,         \* window given to the last focus() call, or NULL
    trace,               \* collaborator calls issued by the last command
    last,                \* the last command and its argument
    pre,                 \* the globals as they were before the last command
    cycle,               \* history of the current run of workspace cycling
    pair,                \* history of a command followed by its inverse
    layout,              \* index -> workspace->layout (a layout entry)
    state,               \* index -> workspace->state (bytes)
    layout_hist,         \* history of the layout commands
    running,             \* volatile sig_atomic_t running
    clock_tick_update,   \* volatile sig_atomic_t clock_tick_update
    pc,                  \* where run() is in its loop
    alarm_pending,       \* a SIGALRM was generated and is not yet delivered
    count,               \* result of the last epoll_pwait
    errno,               \* errno of the last epoll_pwait that failed
    events,              \* callbacks of the sources the last wait reported
    event_index,         \* `index` of the dispatch loop in run()
    loop_hist            \* history of the event loop

loop_vars == <<running, clock_tick_update, pc, alarm_pending, count, errno,
               events, event_index, loop_hist>>

vars == <<workspaces, active_workspace, floating, shown, input_focus,
          trace, last, pre, cycle, pair, layout, state, layout_hist,
          running, clock_tick_update, pc, alarm_pending, count, errno,
          events, event_index, loop_hist>>

\* ------------------------------------------------------------ list.h
SeqToSet(l) == { l[i] : i \in 1 .. Len(l) }

IndexOf(l, w) == CHOOSE i \in 1 .. Len(l) : l[i] = w

list_is_empty(l) == l = <<>>

list_is_singular(l) == Len(l) = 1

list_is_trivial(l) == Len(l) < 2

list_first(l) == l[1]

list_last(l) == l[Len(l)]

\* the link after `link`, skipping the sentinel (wraps from last to first)
list_next_link(l, link) ==
    IF link = HEAD
    THEN (IF l = <<>> THEN HEAD ELSE l[1])
    ELSE IF link \notin SeqToSet(l) THEN DANGLING
    ELSE IF IndexOf(l, link) = Len(l) THEN l[1]
    ELSE l[IndexOf(l, link) + 1]

\* the link before `link`, skipping the sentinel (wraps from first to last)
list_prev_link(l, link) ==
    IF link = HEAD
    THEN (IF l = <<>> THEN HEAD ELSE l[Len(l)])
    ELSE IF link \notin SeqToSet(l) THEN DANGLING
    ELSE IF IndexOf(l, link) = 1 THEN l[Len(l)]
    ELSE l[IndexOf(l, link) - 1]

\* unlink w from l (l unchanged when w is not linked into it)
list_del(l, w) == SelectSeq(l, LAMBDA x : x # w)

\* link w as the last element of l
list_append(l, w) == Append(l, w)

\* link w right after the sentinel of l: w becomes the first element
link_after_head(l, w) == <<w>> \o l

\* link w right before the sentinel of l: w becomes the last element
link_before_head(l, w) == Append(l, w)

\* exchange the positions of the links a and b of l
link_swap(l, a, b) ==
    [i \in 1 .. Len(l) |->
        IF l[i] = a THEN b ELSE IF l[i] = b THEN a ELSE l[i]]

\* ------------------------------------------------------ machine record
TILE == "TILE"
FLOAT == "FLOAT"

Ev(kind, arg) == [ev |-> kind, arg |-> arg]

Globals ==
    [workspaces |-> workspaces, active |-> active_workspace,
     floating |-> floating, shown |-> shown, input_focus |-> input_focus]

Machine ==
    [workspaces |-> workspaces, active |-> active_workspace,
     floating |-> floating, shown |-> shown, input_focus |-> input_focus,
     trace |-> <<>>]

\* The commands name the workspace they operate on `workspace` (velox.c
\* 108-479); setup and the scans of next_workspace and previous_workspace
\* name it `active_workspace` (velox.c 56, 77, 253, 273).  velox.c holds no
\* declaration of `workspace`; the registry has one active workspace, and
\* both names are modelled as that one.
workspace(m) == m.workspaces[m.active]

workspace_at(m, index) == m.workspaces[index]

\* ------------------------------------------------- collaborator calls
show_window(m, w) ==
    [m EXCEPT !.shown = @ \cup {w}, !.trace = Append(@, Ev("show", w))]

hide_window(m, w) ==
    [m EXCEPT !.shown = @ \ {w}, !.trace = Append(@, Ev("hide", w))]

focus(m, w) ==
    [m EXCEPT !.input_focus = w, !.trace = Append(@, Ev("focus", w))]

run_hooks(m, index) ==
    [m EXCEPT !.trace = Append(@, Ev("hook", index))]

restack(m) ==
    [m EXCEPT !.trace = Append(@, Ev("restack", m.active))]

\* arrange() without its early return on an empty tiled list
arrange_always(m) ==
    [m EXCEPT !.trace = Append(@, Ev("arrange", m.active))]

arrange(m) ==
    IF list_is_empty(workspace(m).tiled.windows) THEN m
    ELSE [m EXCEPT !.trace = Append(@, Ev("arrange", m.active))]

RECURSIVE show_each(_, _)
show_each(m, l) ==
    IF l = <<>> THEN m ELSE show_each(show_window(m, Head(l)), Tail(l))

RECURSIVE hide_each(_, _)
hide_each(m, l) ==
    IF l = <<>> THEN m ELSE hide_each(hide_window(m, Head(l)), Tail(l))

\* ------------------------------------------------------------ commands
update_focus(m, index) ==
    LET ws == workspace_at(m, index) IN
    IF ws.focus_type = TILE
    THEN IF list_is_empty(ws.tiled.windows) THEN focus(m, NULL)
         ELSE focus(m, ws.tiled.focus)
    ELSE IF list_is_empty(ws.floated.windows) THEN focus(m, NULL)
         ELSE focus(m, list_first(ws.floated.windows))

\* switch_workspace hiding the old windows before it shows the new ones
switch_workspace_hide_first(m, index) ==
    LET m1 == hide_each(m, workspace(m).tiled.windows)
        m2 == hide_each(m1, workspace(m1).floated.windows)
        m3 == show_each(m2, workspace_at(m2, index).tiled.windows)
        m4 == show_each(m3, workspace_at(m3, index).floated.windows)
        m5 == update_focus(m4, index)
        m6 == [m5 EXCEPT !.active = index]
        m7 == IF workspace(m6).focus_type = TILE THEN arrange(m6) ELSE m6
    IN  run_hooks(m7, m7.active)

\* the else branch of set_workspace: the switch to another workspace
switch_workspace(m, index) ==
    \* Show the windows now visible
    LET m1 == show_each(m, workspace_at(m, index).tiled.windows)
        m2 == show_each(m1, workspace_at(m1, index).floated.windows)
        m3 == update_focus(m2, index)
        \* Hide windows no longer visible
        m4 == hide_each(m3, workspace(m3).tiled.windows)
        m5 == hide_each(m4, workspace(m4).floated.windows)
        m6 == [m5 EXCEPT !.active = index]
        m7 == IF workspace(m6).focus_type = TILE THEN arrange(m6) ELSE m6
    IN  run_hooks(m7, m7.active)

\* set_workspace without the test for the active workspace
set_workspace_unguarded(m, index) == switch_workspace(m, index)

set_workspace(m, index) ==
    IF m.active = index THEN m  \* Nothing to do...
    ELSE switch_workspace(m, index)

\* link_move_after / list_del: a link leaves the list it is linked into
unlink(m, w) ==
    [m EXCEPT !.workspaces =
        [i \in Indices |->
            [@[i] EXCEPT !.tiled.windows = list_del(@, w),
                         !.floated.windows = list_del(@, w)]]]

\* tile_source_after leaving the cursor on the window that has left
tile_source_after_stale_cursor(m, next_focus) ==
    LET src == m.active
        emptied == list_is_empty(workspace(m).tiled.windows)
        m1 == IF emptied /\ ~list_is_empty(workspace(m).floated.windows)
              THEN [m EXCEPT !.workspaces[src].focus_type = FLOAT]
              ELSE m
    IN  IF emptied THEN [m1 EXCEPT !.workspaces[src].tiled.focus = HEAD]
        ELSE m1

\* tile_source_after never switching the focus type to FLOAT
tile_source_after_stays_tile(m, next_focus) ==
    LET src == m.active
        emptied == list_is_empty(workspace(m).tiled.windows)
    IN  [m EXCEPT !.workspaces[src].tiled.focus =
            IF emptied THEN HEAD ELSE next_focus]

\* the source workspace once the focused tiled window has left it: its
\* focus type and its cursor
tile_source_after(m, next_focus) ==
    LET src == m.active
        emptied == list_is_empty(workspace(m).tiled.windows)
        \* Switch focus type to float if those are the only windows
        m1 == IF emptied /\ ~list_is_empty(workspace(m).floated.windows)
              THEN [m EXCEPT !.workspaces[src].focus_type = FLOAT]
              ELSE m
    IN  [m1 EXCEPT !.workspaces[src].tiled.focus =
            IF emptied THEN HEAD ELSE next_focus]

\* move_focus_to_workspace_tile linking the window as the last tiled
\* window of the target
move_focus_to_workspace_tile_append(m, index) ==
    LET src == m.active
        window == workspace(m).tiled.focus
        next_focus == list_next_link(workspace(m).tiled.windows,
                                     workspace(m).tiled.focus)
        m1 == [unlink(m, window) EXCEPT
                  !.workspaces[index].tiled.windows = list_append(@, window)]
        m2 == IF list_is_singular(workspace_at(m1, index).tiled.windows)
              THEN [m1 EXCEPT !.workspaces[index].tiled.focus =
                        list_first(workspace_at(m1, index).tiled.windows)]
              ELSE m1
        m4 == tile_source_after(m2, next_focus)
        m5 == update_focus(m4, src)
        m6 == hide_window(m5, window)
        m7 == arrange(m6)
    IN  IF list_is_empty(workspace_at(m7, index).floated.windows)
        THEN [m7 EXCEPT !.workspaces[index].focus_type = TILE]
        ELSE m7

move_focus_to_workspace_tile(m, index) ==
    LET src == m.active
        window == workspace(m).tiled.focus
        next_focus == list_next_link(workspace(m).tiled.windows,
                                     workspace(m).tiled.focus)
        \* Move the focus from the old list to the new list
        m1 == [unlink(m, window) EXCEPT
                  !.workspaces[index].tiled.windows = link_after_head(@, window)]
        \* If the workspace was empty before, set its focus to the new window
        m2 == IF list_is_singular(workspace_at(m1, index).tiled.windows)
              THEN [m1 EXCEPT !.workspaces[index].tiled.focus =
                        list_first(workspace_at(m1, index).tiled.windows)]
              ELSE m1
        m4 == tile_source_after(m2, next_focus)
        m5 == update_focus(m4, src)
        m6 == hide_window(m5, window)
        m7 == arrange(m6)
    IN  IF list_is_empty(workspace_at(m7, index).floated.windows)
        THEN [m7 EXCEPT !.workspaces[index].focus_type = TILE]
        ELSE m7

\* move_focus_to_workspace_float without list_del: the window is linked
\* into the target list and stays in the source list
move_focus_to_workspace_float_no_del(m, index) ==
    LET src == m.active
        window == list_first(workspace(m).floated.windows)
        m2 == [m EXCEPT !.workspaces[index].floated.windows =
                  list_append(@, window)]
        m3 == IF list_is_empty(workspace(m2).floated.windows)
              THEN [m2 EXCEPT !.workspaces[src].focus_type = TILE]
              ELSE m2
        m4 == update_focus(m3, src)
        m5 == hide_window(m4, window)
        m6 == arrange(m5)
    IN  IF list_is_empty(workspace_at(m6, index).tiled.windows)
        THEN [m6 EXCEPT !.workspaces[index].focus_type = FLOAT]
        ELSE m6

\* move_focus_to_workspace_float linking the window as the first floated
\* window of the target
move_focus_to_workspace_float_front(m, index) ==
    LET src == m.active
        window == list_first(workspace(m).floated.windows)
        m1 == unlink(m, window)
        m2 == [m1 EXCEPT !.workspaces[index].floated.windows =
                  link_after_head(@, window)]
        m3 == IF list_is_empty(workspace(m2).floated.windows)
              THEN [m2 EXCEPT !.workspaces[src].focus_type = TILE]
              ELSE m2
        m4 == update_focus(m3, src)
        m5 == hide_window(m4, window)
        m6 == arrange(m5)
    IN  IF list_is_empty(workspace_at(m6, index).tiled.windows)
        THEN [m6 EXCEPT !.workspaces[index].focus_type = FLOAT]
        ELSE m6

\* move_focus_to_workspace_float leaving the focus type of the target as
\* it was
move_focus_to_workspace_float_keeps_target_mode(m, index) ==
    LET src == m.active
        window == list_first(workspace(m).floated.windows)
        m1 == unlink(m, window)
        m2 == [m1 EXCEPT !.workspaces[index].floated.windows =
                  list_append(@, window)]
        m3 == IF list_is_empty(workspace(m2).floated.windows)
              THEN [m2 EXCEPT !.workspaces[src].focus_type = TILE]
              ELSE m2
        m4 == update_focus(m3, src)
        m5 == hide_window(m4, window)
    IN  arrange(m5)

move_focus_to_workspace_float(m, index) ==
    LET src == m.active
        window == list_first(workspace(m).floated.windows)
        m1 == unlink(m, window)
        m2 == [m1 EXCEPT !.workspaces[index].floated.windows =
                  list_append(@, window)]
        \* Switch focus type to tile if those are the only windows
        m3 == IF list_is_empty(workspace(m2).floated.windows)
              THEN [m2 EXCEPT !.workspaces[src].focus_type = TILE]
              ELSE m2
        m4 == update_focus(m3, src)
        m5 == hide_window(m4, window)
        m6 == arrange(m5)
    IN  IF list_is_empty(workspace_at(m6, index).tiled.windows)
        THEN [m6 EXCEPT !.workspaces[index].focus_type = FLOAT]
        ELSE m6

move_focus_to_workspace(m, index) ==
    IF workspace(m).focus_type = TILE
    THEN IF list_is_empty(workspace(m).tiled.windows) THEN m
         ELSE move_focus_to_workspace_tile(m, index)
    ELSE IF list_is_empty(workspace(m).floated.windows) THEN m
         ELSE move_focus_to_workspace_float(m, index)

set_focus_type(m, focus_type) ==
    IF workspace(m).focus_type = focus_type THEN m
    ELSE IF focus_type = TILE /\ ~list_is_empty(workspace(m).tiled.windows)
    THEN focus([m EXCEPT !.workspaces[m.active].focus_type = focus_type],
               workspace(m).tiled.focus)
    ELSE IF focus_type = FLOAT /\ ~list_is_empty(workspace(m).floated.windows)
    THEN focus([m EXCEPT !.workspaces[m.active].focus_type = focus_type],
               list_first(workspace(m).floated.windows))
    ELSE m

next_workspace(m) ==
    LET index == m.active
    IN  set_workspace(m, IF index + 1 = NumWorkspaces THEN 0 ELSE index + 1)

previous_workspace(m) ==
    LET index == m.active
    IN  set_workspace(m, IF index = 0 THEN NumWorkspaces - 1 ELSE index - 1)

toggle_focus_type(m) ==
    IF workspace(m).focus_type = TILE THEN set_focus_type(m, FLOAT)
    ELSE set_focus_type(m, TILE)

focus_next(m) ==
    LET a == m.active IN
    IF workspace(m).focus_type = TILE
    THEN IF list_is_trivial(workspace(m).tiled.windows) THEN m
         ELSE LET m1 == [m EXCEPT !.workspaces[a].tiled.focus =
                            list_next_link(workspace(m).tiled.windows, @)]
              IN  focus(m1, workspace(m1).tiled.focus)
    ELSE IF list_is_trivial(workspace(m).floated.windows) THEN m
         ELSE LET window == list_last(workspace(m).floated.windows)
                  m1 == [unlink(m, window) EXCEPT
                            !.workspaces[a].floated.windows =
                                link_after_head(@, window)]
              IN  restack(focus(m1, window))

focus_previous(m) ==
    LET a == m.active IN
    IF workspace(m).focus_type = TILE
    THEN IF list_is_trivial(workspace(m).tiled.windows) THEN m
         ELSE LET m1 == [m EXCEPT !.workspaces[a].tiled.focus =
                            list_prev_link(workspace(m).tiled.windows, @)]
              IN  focus(m1, workspace(m1).tiled.focus)
    ELSE IF list_is_trivial(workspace(m).floated.windows) THEN m
         ELSE LET window == list_first(workspace(m).floated.windows)
                  m1 == [unlink(m, window) EXCEPT
                            !.workspaces[a].floated.windows =
                                link_before_head(@, window)]
              IN  restack(focus(m1, window))

\* move_next exchanging the focused window with its predecessor
move_next_with_previous(m) ==
    IF workspace(m).focus_type = TILE
    THEN IF list_is_trivial(workspace(m).tiled.windows) THEN m
         ELSE LET first == workspace(m).tiled.focus
                  second == list_prev_link(workspace(m).tiled.windows,
                                           workspace(m).tiled.focus)
              IN  arrange([m EXCEPT !.workspaces[m.active].tiled.windows =
                                        link_swap(@, first, second)])
    ELSE m

move_next(m) ==
    IF workspace(m).focus_type = TILE
    THEN IF list_is_trivial(workspace(m).tiled.windows) THEN m
         ELSE LET first == workspace(m).tiled.focus
                  second == list_next_link(workspace(m).tiled.windows,
                                           workspace(m).tiled.focus)
              IN  arrange([m EXCEPT !.workspaces[m.active].tiled.windows =
                                        link_swap(@, first, second)])
    ELSE m

move_previous(m) ==
    IF workspace(m).focus_type = TILE
    THEN IF list_is_trivial(workspace(m).tiled.windows) THEN m
         ELSE LET first == workspace(m).tiled.focus
                  second == list_prev_link(workspace(m).tiled.windows,
                                           workspace(m).tiled.focus)
              IN  arrange([m EXCEPT !.workspaces[m.active].tiled.windows =
                                        link_swap(@, first, second)])
    ELSE m

\* the focused tiled window becomes the first floated window
toggle_floating_tile(m) ==
    LET a == m.active
        window == workspace(m).tiled.focus
        m1 == [m EXCEPT !.workspaces[a].tiled.focus =
                  list_next_link(workspace(m).tiled.windows, @)]
        m2 == [unlink(m1, window) EXCEPT
                  !.workspaces[a].floated.windows = link_after_head(@, window)]
        m3 == [m2 EXCEPT !.floating[window] = TRUE,
                         !.workspaces[a].focus_type = FLOAT]
    IN  arrange(restack(update_focus(m3, a)))

\* toggle_floating_float leaving the tiled cursor where it was
toggle_floating_float_no_cursor(m) ==
    LET a == m.active
        window == list_first(workspace(m).floated.windows)
        m1 == [unlink(m, window) EXCEPT
                  !.workspaces[a].tiled.windows = link_after_head(@, window)]
        m3 == [m1 EXCEPT !.floating[window] = FALSE,
                         !.workspaces[a].focus_type = TILE]
    IN  arrange(restack(update_focus(m3, a)))

\* toggle_floating_float linking the window after the window the tiled
\* cursor denotes instead of after the list head
toggle_floating_float_after_cursor(m) ==
    LET a == m.active
        window == list_first(workspace(m).floated.windows)
        l == workspace(m).tiled.windows
        c == workspace(m).tiled.focus
        m1 == [unlink(m, window) EXCEPT
                  !.workspaces[a].tiled.windows =
                      IF c \in SeqToSet(l)
                      THEN SubSeq(l, 1, IndexOf(l, c)) \o <<window>>
                               \o SubSeq(l, IndexOf(l, c) + 1, Len(l))
                      ELSE link_after_head(l, window)]
        m2 == [m1 EXCEPT !.workspaces[a].tiled.focus = window]
        m3 == [m2 EXCEPT !.floating[window] = FALSE,
                         !.workspaces[a].focus_type = TILE]
    IN  arrange(restack(update_focus(m3, a)))

\* the first floated window becomes a tiled window
toggle_floating_float(m) ==
    LET a == m.active
        window == list_first(workspace(m).floated.windows)
        m1 == [unlink(m, window) EXCEPT
                  !.workspaces[a].tiled.windows = link_after_head(@, window)]
        m2 == [m1 EXCEPT !.workspaces[a].tiled.focus = window]
        m3 == [m2 EXCEPT !.floating[window] = FALSE,
                         !.workspaces[a].focus_type = TILE]
    IN  arrange(restack(update_focus(m3, a)))

toggle_floating(m) ==
    IF workspace(m).focus_type = TILE
    THEN IF ~list_is_empty(workspace(m).tiled.windows)
         THEN toggle_floating_tile(m) ELSE m
    ELSE IF ~list_is_empty(workspace(m).floated.windows)
         THEN toggle_floating_float(m) ELSE m

\* ---------------------------------------------------------- histories
\* last, pre, trace, cycle and pair record what a command was applied to
\* and what it did; no command reads them.
\* -------------------------------------------------------------- layouts
\* workspace->layouts: the layout entries of a workspace, in list order
layouts == [k \in 1 .. NumLayouts |-> k]

\* sizeof workspace->state, and the values of one of its bytes
StateSize == 2
Bytes == 0 .. 1

\* layout->default_state_size and layout->default_state of the layout of
\* an entry: layouts differ in the size of their state
default_state_size(link) == IF link % 2 = 1 THEN 1 ELSE StateSize

default_state(link) ==
    [k \in 1 .. default_state_size(link) |-> (link + k) % 2]

\* memcpy(dest, src, n): the first n bytes of dest are overwritten
memcpy(dest, src, n) ==
    [k \in 1 .. Len(dest) |-> IF k <= n THEN src[k] ELSE dest[k]]

\* the machine of the layout commands: the machine of the other commands
\* and the layout cursor and layout state of every workspace
LayoutMachine == [m |-> Machine, layout |-> layout, state |-> state]

\* set_layout without the memcpy of the default state
set_layout_keeps_state(lm, link) ==
    [lm EXCEPT !.layout[lm.m.active] = link,
               !.m = arrange(lm.m)]

set_layout(lm, link) ==
    [lm EXCEPT !.layout[lm.m.active] = link,
               !.state[lm.m.active] =
                   memcpy(@, default_state(link), default_state_size(link)),
               !.m = arrange(lm.m)]

next_layout(lm) ==
    set_layout(lm, list_next_link(layouts, lm.layout[lm.m.active]))

previous_layout(lm) ==
    set_layout(lm, list_prev_link(layouts, lm.layout[lm.m.active]))

\* a command of the current layout that changes one byte of its state and
\* arranges the windows again
modify_state(lm, k, b) ==
    [lm EXCEPT !.state[lm.m.active][k] = b,
               !.m = arrange(lm.m)]

\* ------------------------------------------------------------ histories
NoCycle == [op |-> "none", count |-> 0, active |-> 0, shown |-> {}]

\* the run of consecutive next_workspace (previous_workspace) calls: its
\* length, and the active workspace and the shown windows at its start
CycleStep(op) ==
    IF op \notin {"next_workspace", "previous_workspace"} THEN NoCycle
    ELSE
        LET continues == cycle.op = op /\ cycle.count < NumWorkspaces
        IN  [op |-> op,
             count |-> IF continues THEN cycle.count + 1 ELSE 1,
             active |-> IF continues THEN cycle.active ELSE active_workspace,
             shown |-> IF continues THEN cycle.shown ELSE shown]

NoPair == [first |-> "none", globals |-> <<>>]

\* a command and its inverse run one after the other
Pairs == { <<"next_workspace", "previous_workspace">>,
           <<"move_next", "move_previous">>,
           <<"toggle_floating", "toggle_floating">> }

\* when the last two commands are such a pair: the first of them and the
\* globals before it
PairStep(op) ==
    IF <<last.op, op>> \in Pairs
    THEN [first |-> last.op, globals |-> pre]
    ELSE NoPair

\* no layout command has run since the layout cursors and states were as
\* they are
IdleLayoutHist ==
    [layout |-> layout, state |-> state, nexts |-> 0, origin |-> 0,
     undone |-> 0, undone_state |-> <<>>]

\* the layout cursors and states before the layout command op; the length
\* of the run of next_layout calls it continues and the cursor at the
\* start of the run; when it is a previous_layout that follows a
\* next_layout, the cursor and state before that next_layout
LayoutStep(op) ==
    LET continues == /\ last.op = "next_layout"
                     /\ layout_hist.nexts \in 1 .. (NumLayouts - 1)
        undoes == op = "previous_layout" /\ last.op = "next_layout"
    IN  [layout |-> layout,
         state |-> state,
         nexts |-> IF op # "next_layout" THEN 0
                   ELSE IF continues THEN layout_hist.nexts + 1 ELSE 1,
         origin |-> IF op # "next_layout" THEN 0
                    ELSE IF continues THEN layout_hist.origin
                    ELSE layout[active_workspace],
         undone |-> IF undoes THEN layout_hist.layout[active_workspace]
                    ELSE 0,
         undone_state |-> IF undoes
                          THEN layout_hist.state[active_workspace]
                          ELSE <<>>]

Record(m, op, arg) ==
    /\ workspaces' = m.workspaces
    /\ active_workspace' = m.active
    /\ floating' = m.floating
    /\ shown' = m.shown
    /\ input_focus' = m.input_focus
    /\ trace' = m.trace
    /\ last' = [op |-> op, arg |-> arg]
    /\ pre' = Globals
    /\ cycle' = CycleStep(op)
    /\ pair' = PairStep(op)

\* a command that leaves the layouts alone
Commit(m, op, arg) ==
    /\ Record(m, op, arg)
    /\ UNCHANGED <<layout, state>>
    /\ layout_hist' = IdleLayoutHist
    /\ UNCHANGED loop_vars

\* a layout command
CommitLayout(lm, op, arg) ==
    /\ Record(lm.m, op, arg)
    /\ layout' = lm.layout
    /\ state' = lm.state
    /\ layout_hist' = LayoutStep(op)
    /\ UNCHANGED loop_vars

\* ------------------------------------------------------------- initial
\* where a window is linked when the commands start: 0 for a window that
\* is not managed, 2i+1 for the tiled list and 2i+2 for the floated list
\* of workspace i
Places == 0 .. (2 * NumWorkspaces)

AllWindows == [w \in 1 .. NumWindows |-> w]

ListAt(p, place) == SelectSeq(AllWindows, LAMBDA w : p[w] = place)

InitWorkspace(p, i) ==
    LET tiled == ListAt(p, 2 * i + 1)
        floated == ListAt(p, 2 * i + 2)
    IN  [focus_type |-> IF tiled = <<>> /\ floated # <<>> THEN FLOAT ELSE TILE,
         tiled |-> [windows |-> tiled,
                    focus |-> IF tiled = <<>> THEN HEAD ELSE tiled[1]],
         floated |-> [windows |-> floated]]

InitMachine(p) ==
    update_focus(
        [workspaces |-> [i \in Indices |-> InitWorkspace(p, i)],
         active |-> 0,
         floating |-> [w \in Windows |-> p[w] # 0 /\ p[w] % 2 = 0],
         shown |-> { w \in Windows : p[w] \in {1, 2} },
         input_focus |-> NULL,
         trace |-> <<>>], 0)

\* no step of the event loop has been taken
NoLoopHist ==
    [step |-> "none", int_at |-> "none", alarm_since |-> FALSE,
     was_running |-> TRUE, flag |-> FALSE, ticks |-> 0,
     tick_alarmed |-> TRUE, invoked |-> <<>>, stopped_at |-> -1]

\* every workspace starts on its first layout, with that layout's default
\* state copied into a zeroed state
InitLayout == [i \in Indices |-> list_first(layouts)]

InitState ==
    [i \in Indices |->
        memcpy([k \in 1 .. StateSize |-> 0],
               default_state(list_first(layouts)),
               default_state_size(list_first(layouts)))]

Init ==
    \E p \in [Windows -> Places] :
        LET m == InitMachine(p) IN
        /\ workspaces = m.workspaces
        /\ active_workspace = m.active
        /\ floating = m.floating
        /\ shown = m.shown
        /\ input_focus = m.input_focus
        /\ trace = <<>>
        /\ last = [op |-> "setup", arg |-> 0]
        /\ pre = [workspaces |-> m.workspaces, active |-> m.active,
                  floating |-> m.floating, shown |-> m.shown,
                  input_focus |-> m.input_focus]
        /\ cycle = NoCycle
        /\ pair = NoPair
        /\ layout = InitLayout
        /\ state = InitState
        /\ layout_hist = [layout |-> InitLayout, state |-> InitState,
                          nexts |-> 0, origin |-> 0,
                          undone |-> 0, undone_state |-> <<>>]
        /\ running = TRUE
        /\ clock_tick_update = TRUE
        /\ pc = "check"
        /\ alarm_pending = FALSE
        /\ count = 0
        /\ errno = "none"
        /\ events = <<>>
        /\ event_index = 0
        /\ loop_hist = NoLoopHist

\* ------------------------------------------------------------- actions
SetWorkspace ==
    \E index \in Indices :
        Commit(set_workspace(Machine, index), "set_workspace", index)

MoveFocusToWorkspace ==
    \E index \in Indices :
        Commit(move_focus_to_workspace(Machine, index),
               "move_focus_to_workspace", index)

NextWorkspace == Commit(next_workspace(Machine), "next_workspace", 0)

PreviousWorkspace ==
    Commit(previous_workspace(Machine), "previous_workspace", 0)

ToggleFocusType == Commit(toggle_focus_type(Machine), "toggle_focus_type", 0)

FocusNext == Commit(focus_next(Machine), "focus_next", 0)

FocusPrevious == Commit(focus_previous(Machine), "focus_previous", 0)

MoveNext == Commit(move_next(Machine), "move_next", 0)

MovePrevious == Commit(move_previous(Machine), "move_previous", 0)

ToggleFloating == Commit(toggle_floating(Machine), "toggle_floating", 0)

Arrange == Commit(arrange(Machine), "arrange", 0)

Next ==
    \/ SetWorkspace
    \/ MoveFocusToWorkspace
    \/ NextWorkspace
    \/ PreviousWorkspace
    \/ ToggleFocusType
    \/ FocusNext
    \/ FocusPrevious
    \/ MoveNext
    \/ MovePrevious
    \/ ToggleFloating
    \/ Arrange

Spec == Init /\ [][Next]_vars

\* ------------------------------------------------- the layout commands
SetLayout ==
    \E link \in 1 .. NumLayouts :
        CommitLayout(set_layout(LayoutMachine, link), "set_layout", link)

NextLayout == CommitLayout(next_layout(LayoutMachine), "next_layout", 0)

PreviousLayout ==
    CommitLayout(previous_layout(LayoutMachine), "previous_layout", 0)

ModifyState ==
    \E k \in 1 .. default_state_size(layout[active_workspace]), b \in Bytes :
        CommitLayout(modify_state(LayoutMachine, k, b), "modify_state", k)

\* the layout commands run with every window tiled on workspace 0 or
\* with no window managed, on any workspace made active
LayoutInit ==
    /\ Init
    /\ floating = [w \in Windows |-> FALSE]
    /\ \A i \in Indices \ {0} : workspaces[i].tiled.windows = <<>>
    /\ Len(workspaces[0].tiled.windows) \in {0, NumWindows}

LayoutNext ==
    \/ SetLayout
    \/ NextLayout
    \/ PreviousLayout
    \/ ModifyState
    \/ SetWorkspace

LayoutSpec == LayoutInit /\ [][LayoutNext]_vars

\* ------------------------------------------------------ the event loop
\* run() from its loop on (velox.c 556-579); what comes before the loop
\* (SIGALRM blocked, the three handlers installed, the timer started) is
\* the initial state.  pc is
\*   "check"     at the test of `while (running)`;
\*   "call"      past the test, before epoll_pwait has changed the mask;
\*   "wait"      blocked in epoll_pwait, under the mask empty_set;
\*   "returned"  epoll_pwait has returned, at `if (count == -1)`;
\*   "dispatch"  in the for loop over the reported events;
\*   "exit"      past the loop.
\* loop_hist records: the last step; where SIGINT was first delivered;
\* whether a SIGALRM was delivered since the last CLOCK_TICK (or the
\* start); `running` before the last step; and since the last return of
\* epoll_pwait: clock_tick_update at that return, the CLOCK_TICK hooks
\* run, whether the last of them had a SIGALRM delivered before it, the
\* callbacks invoked, and the index of the dispatch loop when `running`
\* became false (-1 if it did not during the dispatch).
EINTR == "EINTR"
EBADF == "EBADF"

\* ARRAY_LENGTH(events)
MaxEvents == 32

\* the callbacks of the registered sources
Sources == 1 .. NumSources

\* the signals blocked while the loop runs, and inside epoll_pwait
blocked_set == {"SIGALRM"}

\* epoll_pwait called with blocked_set as its mask
empty_set_blocks_alarm == {"SIGALRM"}

empty_set == {}

\* the mask in force at a position of the loop
sigmask(at) == IF at = "wait" THEN empty_set ELSE blocked_set

\* what a wait may report: one to MaxEvents ready sources, each once
Ready ==
    { r \in UNION { [1 .. n -> Sources] : n \in 1 .. NumSources } :
        /\ Len(r) <= MaxEvents
        /\ \A i, j \in 1 .. Len(r) : i # j => r[i] # r[j] }

\* the hook condition without the test of clock_tick_update
tick_due_whatever_flag(cnt, err, flag) == cnt = -1 /\ err = EINTR

\* `count == -1`, `errno == EINTR` and `clock_tick_update` all hold
tick_due(cnt, err, flag) == cnt = -1 /\ err = EINTR /\ flag

\* the dispatch loop leaving as soon as `running` is false
dispatch_continues_while_running(r, i, n) == r /\ i < n

\* the condition of the for loop, `index < count`
dispatch_continues(r, i, n) == i < n

Step(name) == [loop_hist EXCEPT !.step = name, !.was_running = running]

Interrupt(h) ==
    [h EXCEPT !.int_at = IF @ = "none" THEN pc ELSE @,
              !.stopped_at = IF running /\ pc = "dispatch" THEN event_index ELSE @]

\* a wait has returned: the part of the history that is per return
Returned(h) ==
    [h EXCEPT !.flag = clock_tick_update', !.ticks = 0,
              !.tick_alarmed = TRUE, !.invoked = <<>>, !.stopped_at = -1]

LoopFrame ==
    UNCHANGED <<workspaces, active_workspace, floating, shown, input_focus,
                trace, last, pre, cycle, pair, layout, state, layout_hist>>

\* while (running)
Check ==
    /\ pc = "check"
    /\ pc' = IF running THEN "call" ELSE "exit"
    /\ loop_hist' = Step("Check")
    /\ UNCHANGED <<running, clock_tick_update, alarm_pending, count, errno,
                   events, event_index>>
    /\ LoopFrame

\* epoll_pwait installs its mask and blocks
EnterWait ==
    /\ pc = "call"
    /\ pc' = "wait"
    /\ loop_hist' = Step("EnterWait")
    /\ UNCHANGED <<running, clock_tick_update, alarm_pending, count, errno,
                   events, event_index>>
    /\ LoopFrame

\* epoll_pwait returns the ready sources
WaitReady ==
    /\ pc = "wait"
    /\ \E ready \in Ready :
          /\ count' = Len(ready)
          /\ events' = ready
    /\ pc' = "returned"
    /\ UNCHANGED <<running, clock_tick_update, alarm_pending, errno, event_index>>
    /\ loop_hist' = Returned(Step("WaitReady"))
    /\ LoopFrame

\* epoll_pwait fails with an error other than EINTR
WaitFails ==
    /\ pc = "wait"
    /\ count' = -1
    /\ errno' = EBADF
    /\ pc' = "returned"
    /\ UNCHANGED <<running, clock_tick_update, alarm_pending, events, event_index>>
    /\ loop_hist' = Returned(Step("WaitFails"))
    /\ LoopFrame

\* a handler has run inside epoll_pwait: it returns -1 with errno EINTR
InterruptWait(h) ==
    IF pc = "wait"
    THEN /\ pc' = "returned"
         /\ count' = -1
         /\ errno' = EINTR
         /\ loop_hist' = Returned(h)
    ELSE /\ UNCHANGED <<pc, count, errno>>
         /\ loop_hist' = h

\* the interval timer expires: a SIGALRM is generated
Timer ==
    /\ pc # "exit"
    /\ ~alarm_pending
    /\ alarm_pending' = TRUE
    /\ loop_hist' = Step("Timer")
    /\ UNCHANGED <<running, clock_tick_update, pc, count, errno, events,
                   event_index>>
    /\ LoopFrame

\* the pending SIGALRM is delivered where the mask lets it: catch_alarm
CatchAlarm ==
    /\ pc # "exit"
    /\ alarm_pending
    /\ "SIGALRM" \notin sigmask(pc)
    /\ alarm_pending' = FALSE
    /\ clock_tick_update' = TRUE
    /\ InterruptWait([Step("CatchAlarm") EXCEPT !.alarm_since = TRUE])
    /\ UNCHANGED <<running, events, event_index>>
    /\ LoopFrame

\* SIGINT is delivered: catch_int calls quit()
CatchInt ==
    /\ pc # "exit"
    /\ "SIGINT" \notin sigmask(pc)
    /\ running' = FALSE
    /\ clock_tick_update' = clock_tick_update
    /\ InterruptWait(Interrupt(Step("CatchInt")))
    /\ UNCHANGED <<alarm_pending, events, event_index>>
    /\ LoopFrame

\* SIGCHLD is delivered inside epoll_pwait: catch_chld reaps the children
\* (delivered elsewhere it changes nothing the loop reads)
CatchChld ==
    /\ pc = "wait"
    /\ "SIGCHLD" \notin sigmask(pc)
    /\ clock_tick_update' = clock_tick_update
    /\ InterruptWait(Step("CatchChld"))
    /\ UNCHANGED <<running, alarm_pending, events, event_index>>
    /\ LoopFrame

\* from `if (count == -1)` to `continue`, or to the start of the for loop
AfterWait ==
    /\ pc = "returned"
    /\ IF count = -1
       THEN /\ pc' = "check"
            /\ event_index' = event_index
            /\ IF tick_due(count, errno, clock_tick_update)
               THEN /\ clock_tick_update' = FALSE
                    \* run_hooks(NULL, VELOX_HOOK_CLOCK_TICK)
                    /\ loop_hist' =
                          [Step("AfterWait") EXCEPT
                              !.ticks = @ + 1,
                              !.tick_alarmed = loop_hist.alarm_since,
                              !.alarm_since = FALSE]
               ELSE /\ clock_tick_update' = clock_tick_update
                    /\ loop_hist' = Step("AfterWait")
       ELSE /\ event_index' = 0
            /\ pc' = IF dispatch_continues(running, 0, count)
                      THEN "dispatch" ELSE "check"
            /\ clock_tick_update' = clock_tick_update
            /\ loop_hist' = Step("AfterWait")
    /\ UNCHANGED <<running, alarm_pending, count, errno, events>>
    /\ LoopFrame

\* one turn of the for loop: the callback of events[index] runs, and may
\* call quit()
Dispatch ==
    /\ pc = "dispatch"
    /\ \E quits \in BOOLEAN :
          /\ running' = (running /\ ~quits)
          /\ loop_hist' =
                [Step("Dispatch") EXCEPT
                    !.invoked = Append(@, events[event_index + 1]),
                    !.stopped_at = IF running /\ quits THEN event_index ELSE @]
    /\ event_index' = event_index + 1
    /\ pc' = IF dispatch_continues(running', event_index + 1, count)
              THEN "dispatch" ELSE "check"
    /\ UNCHANGED <<clock_tick_update, alarm_pending, count, errno, events>>
    /\ LoopFrame

\* the loop runs with no window managed
LoopInit ==
    /\ Init
    /\ \A i \in Indices :
          /\ workspaces[i].tiled.windows = <<>>
          /\ workspaces[i].floated.windows = <<>>

LoopNext ==
    \/ Check
    \/ EnterWait
    \/ WaitReady
    \/ WaitFails
    \/ Timer
    \/ CatchAlarm
    \/ CatchInt
    \/ CatchChld
    \/ AfterWait
    \/ Dispatch

LoopSpec == LoopInit /\ [][LoopNext]_vars

\* the process keeps running (the loop goes on to its next statement and
\* every callback returns), the interval timer keeps expiring and a
\* pending signal that is not blocked is delivered
LoopFairness ==
    /\ WF_vars(Check)
    /\ WF_vars(EnterWait)
    /\ WF_vars(AfterWait)
    /\ WF_vars(Dispatch)
    /\ WF_vars(Timer)
    /\ WF_vars(CatchAlarm)

LoopFairSpec == LoopInit /\ [][LoopNext]_vars /\ LoopFairness

\* ------------------------------------------------------- observations
MOVE == "move_focus_to_workspace"

\* how many times w is linked into the lists of the workspaces ws
Count(l, w) == Cardinality({ i \in 1 .. Len(l) : l[i] = w })

RECURSIVE SumOver(_, _)
SumOver(f, S) ==
    IF S = {} THEN 0
    ELSE LET i == CHOOSE x \in S : TRUE IN f[i] + SumOver(f, S \ {i})

Occurrences(ws, w) ==
    SumOver([i \in Indices |-> Count(ws[i].tiled.windows, w)
                               + Count(ws[i].floated.windows, w)], Indices)

AllLinked(ws) ==
    UNION { SeqToSet(ws[i].tiled.windows) \cup SeqToSet(ws[i].floated.windows)
            : i \in Indices }

\* every cursor a command dereferences is linked into its tiled list
CursorsLinked ==
    \A i \in Indices :
        workspaces[i].tiled.windows # <<>> =>
            workspaces[i].tiled.focus \in SeqToSet(workspaces[i].tiled.windows)

\* ---------------------------------------------------------------- C1
\* C1: in every workspace, active or not, whose focus_type is TILE and
\* whose tiled list is not empty, tiled.focus is a window linked into that
\* workspace's tiled list: not the list head, not a floated window, not a
\* window of another workspace.
C1_TiledFocusIsMember ==
    \A i \in Indices :
        LET ws == workspaces[i] IN
        (ws.focus_type = TILE /\ ws.tiled.windows # <<>>) =>
            /\ ws.tiled.focus \in Windows
            /\ ws.tiled.focus \in SeqToSet(ws.tiled.windows)
            /\ ws.tiled.focus \notin SeqToSet(ws.floated.windows)
            /\ \A j \in Indices \ {i} :
                   ws.tiled.focus \notin SeqToSet(workspaces[j].tiled.windows)
                                         \cup SeqToSet(workspaces[j].floated.windows)

\* the focused tiled window has just left a tiled list that stays
\* non-empty in TILE mode, for another workspace
C1_Witness ==
    /\ last.op = MOVE
    /\ last.arg # pre.active
    /\ pre.workspaces[pre.active].focus_type = TILE
    /\ Len(pre.workspaces[pre.active].tiled.windows) >= 2
    /\ workspaces[pre.active].focus_type = TILE
    /\ workspaces[pre.active].tiled.focus
           # pre.workspaces[pre.active].tiled.focus
    /\ workspaces[pre.active].tiled.focus
           \in SeqToSet(workspaces[pre.active].tiled.windows)

\* ---------------------------------------------------------------- C2
\* C2: every managed window is linked into exactly one list of exactly one
\* workspace: no command links a window twice or drops it, and the
\* multiset of linked windows is the one before the command.
C2_ExactlyOneList ==
    /\ \A i \in Indices :
           SeqToSet(workspaces[i].tiled.windows)
               \cup SeqToSet(workspaces[i].floated.windows) \subseteq Windows
    /\ \A w \in Windows :
           /\ Occurrences(workspaces, w) <= 1
           /\ Occurrences(workspaces, w) = Occurrences(pre.workspaces, w)

\* a window has been relocated to another workspace, and one has been
\* relocated between the two lists of a workspace
C2_Witness ==
    \/ /\ last.op = MOVE
       /\ last.arg # pre.active
       /\ \E w \in Windows :
              /\ w \in SeqToSet(pre.workspaces[pre.active].floated.windows)
              /\ w \in SeqToSet(workspaces[last.arg].floated.windows)
              /\ Occurrences(workspaces, w) = 1
    \/ /\ last.op = "toggle_floating"
       /\ \E w \in Windows :
              /\ w \in SeqToSet(pre.workspaces[pre.active].tiled.windows)
              /\ w \in SeqToSet(workspaces[pre.active].floated.windows)
              /\ Occurrences(workspaces, w) = 1

\* ---------------------------------------------------------------- C3
\* C3: set_workspace(index) with index the active workspace does nothing:
\* no collaborator call is issued (no show, hide, focus, arrange, hook)
\* and the active workspace, the lists, the cursors, the modes, the shown
\* windows and the input focus are those before the call.
C3_SetWorkspaceSameIsNoOp ==
    (last.op = "set_workspace" /\ last.arg = pre.active) =>
        /\ trace = <<>>
        /\ Globals = pre

\* set_workspace on the active workspace while it shows several windows
\* and another workspace holds windows too
C3_Witness ==
    /\ last.op = "set_workspace"
    /\ last.arg = pre.active
    /\ Cardinality(shown) >= 2
    /\ workspaces[active_workspace].tiled.windows # <<>>
    /\ \E j \in Indices \ {active_workspace} :
           workspaces[j].tiled.windows # <<>>

\* ---------------------------------------------------------------- C4
EventsOf(kind, l) == [i \in 1 .. Len(l) |-> Ev(kind, l[i])]

Positions(kind) == { i \in 1 .. Len(trace) : trace[i].ev = kind }

\* C4: set_workspace(index) to another workspace issues, in this order:
\* a show for every window of the target (tiled list, then floated list),
\* one focus call for the target, a hide for every window of the formerly
\* active workspace (tiled, then floated), then, with the target already
\* active, an arrange only if the target's mode is TILE, and last one
\* WORKSPACE_CHANGED hook for the new active workspace; no hide precedes a
\* show.
C4_SetWorkspaceOrder ==
    (last.op = "set_workspace" /\ last.arg # pre.active) =>
        LET target == pre.workspaces[last.arg]
            old == pre.workspaces[pre.active]
            shows == EventsOf("show", target.tiled.windows
                                          \o target.floated.windows)
            hides == EventsOf("hide", old.tiled.windows \o old.floated.windows)
            nS == Len(shows)
            nH == Len(hides)
        IN  /\ Len(trace) >= nS + nH + 2
            /\ SubSeq(trace, 1, nS) = shows
            /\ trace[nS + 1].ev = "focus"
            /\ SubSeq(trace, nS + 2, nS + 1 + nH) = hides
            /\ active_workspace = last.arg
            /\ trace[Len(trace)] = Ev("hook", last.arg)
            /\ Cardinality(Positions("hook")) = 1
            /\ Cardinality(Positions("focus")) = 1
            /\ \A i \in Positions("arrange") :
                   /\ i = Len(trace) - 1
                   /\ trace[i].arg = last.arg
                   /\ target.focus_type = TILE
            /\ (target.focus_type = TILE /\ target.tiled.windows # <<>>)
                   => Positions("arrange") # {}
            /\ \A i \in Positions("hide"), j \in Positions("show") : j < i
            /\ Len(trace) = nS + nH + 2 + Cardinality(Positions("arrange"))

\* a switch between two workspaces that both hold windows, into TILE mode
C4_Witness ==
    /\ last.op = "set_workspace"
    /\ last.arg # pre.active
    /\ Positions("show") # {}
    /\ Positions("hide") # {}
    /\ Positions("arrange") # {}
    /\ pre.workspaces[last.arg].floated.windows # <<>>

\* ---------------------------------------------------------------- C5
\* next_workspace moves to the next index and wraps from the last to 0,
\* previous_workspace moves to the previous index and wraps from 0 to the
\* last; next_workspace then previous_workspace restores the active
\* workspace; a run of NumWorkspaces calls of either restores it too
C5_ActiveCycles ==
    /\ last.op = "next_workspace" =>
           active_workspace = (pre.active + 1) % NumWorkspaces
    /\ last.op = "previous_workspace" =>
           active_workspace = (pre.active + NumWorkspaces - 1) % NumWorkspaces
    /\ (last.op = "previous_workspace" /\ pair.first = "next_workspace") =>
           active_workspace = pair.globals.active
    /\ cycle.count = NumWorkspaces => active_workspace = cycle.active

\* C5: NumWorkspaces calls of next_workspace (of previous_workspace) make
\* the workspace active again that was active before the first call and
\* leave shown the windows that were shown before the first call; the
\* index wraps in both directions, and next_workspace then
\* previous_workspace restores the active workspace.
C5_CycleRestoresActiveAndShown ==
    /\ C5_ActiveCycles
    /\ cycle.count = NumWorkspaces => shown = cycle.shown

\* ---------------------------------------------------------------- C6
\* C6: in TILE mode with exactly one tiled window, move_focus_to_workspace
\* to another workspace leaves the source tiled list empty; with floated
\* windows on the source its focus_type becomes FLOAT and the first of
\* them gets the input focus; without, the focus_type stays TILE and the
\* input focus is cleared.
C6_MoveSoleTiled ==
    (/\ last.op = MOVE
     /\ last.arg # pre.active
     /\ pre.workspaces[pre.active].focus_type = TILE
     /\ Len(pre.workspaces[pre.active].tiled.windows) = 1) =>
        LET src == workspaces[pre.active]
            before == pre.workspaces[pre.active]
        IN  /\ active_workspace = pre.active
            /\ src.tiled.windows = <<>>
            /\ src.floated.windows = before.floated.windows
            /\ IF before.floated.windows # <<>>
               THEN /\ src.focus_type = FLOAT
                    /\ input_focus = before.floated.windows[1]
               ELSE /\ src.focus_type = TILE
                    /\ input_focus = NULL

\* the sole tiled window has left a workspace that holds floated windows
C6_Witness ==
    /\ last.op = MOVE
    /\ last.arg # pre.active
    /\ pre.workspaces[pre.active].focus_type = TILE
    /\ Len(pre.workspaces[pre.active].tiled.windows) = 1
    /\ pre.workspaces[pre.active].floated.windows # <<>>
    /\ workspaces[pre.active].focus_type = FLOAT
    /\ input_focus = workspaces[pre.active].floated.windows[1]

\* ---------------------------------------------------------------- C7
\* C7: in FLOAT mode with floated windows, move_focus_to_workspace to
\* another workspace unlinks the first floated window of the source and
\* links it as the last floated window of the target; a source left
\* without floated windows gets focus_type TILE, and the input focus is
\* cleared when it has no tiled window either (no cursor is read); the
\* target's focus_type becomes FLOAT when its tiled list is empty and is
\* otherwise the one it had.
C7_MoveFloated ==
    (/\ last.op = MOVE
     /\ last.arg # pre.active
     /\ pre.workspaces[pre.active].focus_type = FLOAT
     /\ pre.workspaces[pre.active].floated.windows # <<>>) =>
        LET src == workspaces[pre.active]
            dst == workspaces[last.arg]
            before == pre.workspaces[pre.active]
            target == pre.workspaces[last.arg]
            w == before.floated.windows[1]
        IN  /\ src.floated.windows = Tail(before.floated.windows)
            /\ dst.floated.windows = Append(target.floated.windows, w)
            /\ src.tiled.windows = before.tiled.windows
            /\ dst.tiled.windows = target.tiled.windows
            /\ src.floated.windows = <<>> => src.focus_type = TILE
            /\ (src.floated.windows = <<>> /\ src.tiled.windows = <<>>)
                   => input_focus = NULL
            /\ dst.focus_type = IF target.tiled.windows = <<>> THEN FLOAT
                                ELSE target.focus_type

\* the only window of a workspace, a floated one, has joined the floated
\* windows of a workspace whose mode was TILE
C7_Witness ==
    /\ last.op = MOVE
    /\ last.arg # pre.active
    /\ pre.workspaces[pre.active].focus_type = FLOAT
    /\ Len(pre.workspaces[pre.active].floated.windows) = 1
    /\ pre.workspaces[pre.active].tiled.windows = <<>>
    /\ pre.workspaces[last.arg].floated.windows # <<>>
    /\ pre.workspaces[last.arg].focus_type = TILE
    /\ workspaces[pre.active].focus_type = TILE
    /\ input_focus = NULL

\* ---------------------------------------------------------------- C8
\* l with the elements at positions i and j exchanged
Exchanged(l, i, j) ==
    [k \in 1 .. Len(l) |-> IF k = i THEN l[j] ELSE IF k = j THEN l[i] ELSE l[k]]

Position(l, w) == CHOOSE i \in 1 .. Len(l) : l[i] = w

TileReorderCase(g) ==
    /\ g.workspaces[g.active].focus_type = TILE
    /\ Len(g.workspaces[g.active].tiled.windows) >= 2

\* C8: in TILE mode with two or more tiled windows, move_next exchanges
\* the positions of the focused window and its cyclic successor (the first
\* window when the focused one is last) and moves no other window;
\* move_previous does so with the cyclic predecessor; after either the
\* cursor denotes the window it denoted before; move_next followed by
\* move_previous restores the tiled order.
C8_MoveNextMovePrevious ==
    LET a == pre.active
        l == pre.workspaces[a].tiled.windows
        f == pre.workspaces[a].tiled.focus
        n == Len(l)
        unmoved ==
            /\ workspaces[a].tiled.focus = f
            /\ workspaces[a].floated = pre.workspaces[a].floated
            /\ \A j \in Indices \ {a} : workspaces[j] = pre.workspaces[j]
    IN  /\ (last.op = "move_next" /\ TileReorderCase(pre)) =>
               /\ workspaces[a].tiled.windows =
                      Exchanged(l, Position(l, f), (Position(l, f) % n) + 1)
               /\ unmoved
        /\ (last.op = "move_previous" /\ TileReorderCase(pre)) =>
               /\ workspaces[a].tiled.windows =
                      Exchanged(l, Position(l, f),
                                ((Position(l, f) + n - 2) % n) + 1)
               /\ unmoved
        /\ (/\ last.op = "move_previous"
            /\ pair.first = "move_next"
            /\ TileReorderCase(pair.globals)) =>
               /\ workspaces = pair.globals.workspaces
               /\ active_workspace = pair.globals.active

\* move_next on three tiled windows with the last one focused (its
\* successor is the first window), then move_previous
C8_Witness ==
    /\ last.op = "move_previous"
    /\ pair.first = "move_next"
    /\ LET g == pair.globals
           l == g.workspaces[g.active].tiled.windows
       IN  /\ g.workspaces[g.active].focus_type = TILE
           /\ Len(l) = 3
           /\ g.workspaces[g.active].tiled.focus = l[3]
           /\ pre.workspaces[g.active].tiled.windows = <<l[3], l[2], l[1]>>
           /\ workspaces[g.active].tiled.windows = l
           /\ workspaces[g.active].tiled.focus = l[3]

\* ---------------------------------------------------------------- C9
\* C9: in TILE mode with tiled windows, toggle_floating on the focused
\* window W makes W floating, the first floated window and the input
\* focus, in FLOAT mode; a second toggle_floating makes W not floating, a
\* member of the same workspace's tiled list and of no floated list, the
\* tiled cursor and the input focus, in TILE mode.
C9_ToggleFloatingTwice ==
    /\ (/\ last.op = "toggle_floating"
        /\ pre.workspaces[pre.active].focus_type = TILE
        /\ pre.workspaces[pre.active].tiled.windows # <<>>) =>
           LET W == pre.workspaces[pre.active].tiled.focus
               ws == workspaces[pre.active]
           IN  /\ W \in Windows
               /\ floating[W] = TRUE
               /\ ws.floated.windows # <<>>
               /\ ws.floated.windows[1] = W
               /\ ws.focus_type = FLOAT
               /\ input_focus = W
    /\ (/\ last.op = "toggle_floating"
        /\ pair.first = "toggle_floating"
        /\ pair.globals.workspaces[pair.globals.active].focus_type = TILE
        /\ pair.globals.workspaces[pair.globals.active].tiled.windows # <<>>) =>
           LET a == pair.globals.active
               W == pair.globals.workspaces[a].tiled.focus
               ws == workspaces[a]
           IN  /\ active_workspace = a
               /\ W \in Windows
               /\ floating[W] = FALSE
               /\ W \in SeqToSet(ws.tiled.windows)
               /\ \A j \in Indices :
                      W \notin SeqToSet(workspaces[j].floated.windows)
               /\ Occurrences(workspaces, W) = 1
               /\ ws.focus_type = TILE
               /\ ws.tiled.focus = W
               /\ input_focus = W

\* two toggles of a window that was neither the first nor the only tiled
\* window, on a workspace that already held a floated window
C9_Witness ==
    /\ last.op = "toggle_floating"
    /\ pair.first = "toggle_floating"
    /\ LET g == pair.globals
           before == g.workspaces[g.active]
           W == before.tiled.focus
       IN  /\ before.focus_type = TILE
           /\ Len(before.tiled.windows) >= 2
           /\ before.tiled.windows[1] # W
           /\ before.floated.windows # <<>>
           /\ pre.floating[W] = TRUE
           /\ floating[W] = FALSE
           /\ workspaces[g.active].tiled.focus = W
           /\ input_focus = W

\* --------------------------------------------------------------- C10
\* l with w linked right after the element anchor
link_after(l, anchor, w) ==
    SubSeq(l, 1, Position(l, anchor)) \o <<w>>
        \o SubSeq(l, Position(l, anchor) + 1, Len(l))

RetileCase ==
    /\ last.op = "toggle_floating"
    /\ pre.workspaces[pre.active].focus_type = FLOAT
    /\ pre.workspaces[pre.active].floated.windows # <<>>
    /\ pre.workspaces[pre.active].tiled.windows # <<>>

\* C10 as claimed: toggle_floating links the first floated window into a
\* non-empty tiled list right after the window the tiled cursor denoted
\* before the call.
C10_RetiledAfterFocus ==
    RetileCase =>
        LET before == pre.workspaces[pre.active] IN
        workspaces[pre.active].tiled.windows =
            link_after(before.tiled.windows, before.tiled.focus,
                       before.floated.windows[1])

\* C10 as amended: toggle_floating links the first floated window into a
\* non-empty tiled list as its first window, ahead of every window already
\* tiled and whatever window the tiled cursor denoted before the call; the
\* windows already tiled keep their order and the cursor denotes the
\* retiled window.
C10_RetiledAtFront ==
    RetileCase =>
        LET before == pre.workspaces[pre.active] IN
        /\ workspaces[pre.active].tiled.windows =
               <<before.floated.windows[1]>> \o before.tiled.windows
        /\ workspaces[pre.active].tiled.focus = before.floated.windows[1]
        /\ workspaces[pre.active].floated.windows
               = Tail(before.floated.windows)

\* a floated window retiled into a list of two whose cursor was on the
\* second window
C10_Witness ==
    /\ RetileCase
    /\ LET before == pre.workspaces[pre.active] IN
       /\ Len(before.tiled.windows) = 2
       /\ before.tiled.focus = before.tiled.windows[2]
       /\ workspaces[pre.active].tiled.windows[1] = before.floated.windows[1]

\* ------------------------------------------------------------------- C12
\* the first window of the active workspace's floated list
FirstFloated == list_first(workspaces[active_workspace].floated.windows)

FloatFocusCase ==
    /\ workspaces[active_workspace].focus_type = FLOAT
    /\ ~list_is_empty(workspaces[active_workspace].floated.windows)

\* C12: whenever the active workspace is in FLOAT mode and its floated list
\* is not empty, the window holding input focus is the first window of
\* that floated list, after every command (focus_next and focus_previous
\* on two or more floated windows included).
C12_FloatFocusIsFirst == FloatFocusCase => input_focus = FirstFloated

\* ------------------------------------------------------------------- C15
\* before the last command: the active workspace, the list its mode
\* selects and the list of the other mode
PreWorkspace == pre.workspaces[pre.active]

PreSelected ==
    IF PreWorkspace.focus_type = TILE THEN PreWorkspace.tiled.windows
    ELSE PreWorkspace.floated.windows

PreOther ==
    IF PreWorkspace.focus_type = TILE THEN PreWorkspace.floated.windows
    ELSE PreWorkspace.tiled.windows

\* the last command could not apply
CannotApply ==
    \/ /\ last.op \in {"move_focus_to_workspace", "toggle_floating"}
       /\ list_is_empty(PreSelected)
    \/ /\ last.op \in {"focus_next", "focus_previous",
                       "move_next", "move_previous"}
       /\ list_is_trivial(PreSelected)
    \/ /\ last.op \in {"move_next", "move_previous"}
       /\ PreWorkspace.focus_type = FLOAT
    \/ /\ last.op = "toggle_focus_type"
       /\ list_is_empty(PreOther)
    \/ /\ last.op = "arrange"
       /\ list_is_empty(PreWorkspace.tiled.windows)

\* C15: a command that cannot apply (empty selected list for
\* move_focus_to_workspace and toggle_floating, fewer than two windows for
\* focus_next/focus_previous/move_next/move_previous, FLOAT mode for
\* move_next/move_previous, empty destination list for toggle_focus_type,
\* empty tiled list for arrange) leaves every global unchanged and issues
\* no show, hide, focus, arrange, restack or hook call.
C15_InapplicableIsNoOp == CannotApply => (Globals = pre /\ trace = <<>>)

\* move_next in FLOAT mode over two tiled windows and a floated one
C15_Witness ==
    /\ CannotApply
    /\ last.op = "move_next"
    /\ PreWorkspace.focus_type = FLOAT
    /\ Len(PreWorkspace.tiled.windows) >= 2
    /\ ~list_is_empty(PreWorkspace.floated.windows)

\* ------------------------------------------------------------------- C16
\* the focus type of a workspace designates an empty list only when both
\* of its lists are empty
ModeConsistent(ws) ==
    /\ ~(/\ ws.focus_type = TILE
         /\ list_is_empty(ws.tiled.windows)
         /\ ~list_is_empty(ws.floated.windows))
    /\ ~(/\ ws.focus_type = FLOAT
         /\ list_is_empty(ws.floated.windows)
         /\ ~list_is_empty(ws.tiled.windows))

\* C16: after any sequence of commands no workspace, active or not, is in
\* TILE mode with an empty tiled list and a non-empty floated list, nor in
\* FLOAT mode with an empty floated list and a non-empty tiled list.
C16_ModeConsistent == \A i \in Indices : ModeConsistent(workspaces[i])

\* move_focus_to_workspace to a non-active target that changed the focus
\* type of both the source and the target
C16_Witness ==
    /\ last.op = MOVE
    /\ last.arg # pre.active
    /\ workspaces[pre.active].focus_type # PreWorkspace.focus_type
    /\ workspaces[last.arg].focus_type # pre.workspaces[last.arg].focus_type

\* ------------------------------------------------------------------- C17
\* the windows linked into a list of workspace i
WindowsOf(i) ==
    SeqToSet(workspaces[i].tiled.windows)
        \cup SeqToSet(workspaces[i].floated.windows)

\* C17: after any sequence of commands (move_focus_to_workspace with any
\* valid index, the active one included) every window of the active
\* workspace is shown and every window of a non-active workspace is hidden.
C17_ShownIsActive ==
    /\ WindowsOf(active_workspace) \subseteq shown
    /\ \A i \in Indices \ {active_workspace} : WindowsOf(i) \cap shown = {}

\* ------------------------------------------------------------------- C20
\* the last command moved the focused tiled window to another workspace
TileMoveCase ==
    /\ last.op = MOVE
    /\ last.arg # pre.active
    /\ PreWorkspace.focus_type = TILE
    /\ ~list_is_empty(PreWorkspace.tiled.windows)
    /\ PreWorkspace.tiled.focus \in Windows

\* the window after w in l, the first window following the last one
CyclicSuccessor(l, w) == l[(Position(l, w) % Len(l)) + 1]

\* C20: move_focus_to_workspace of a tiled window to another workspace
\* puts the window at the front of the target's tiled list and keeps the
\* order of the other windows of both lists; the target's cursor becomes
\* the window if the target's tiled list was empty and is unchanged
\* otherwise; the source's cursor becomes the cyclic successor of the
\* window when the source list stays non-empty; the target's focus type
\* becomes TILE if the target's floated list is empty and is unchanged
\* otherwise.
C20_TileMove ==
    TileMoveCase =>
        LET window == PreWorkspace.tiled.focus
            source == PreWorkspace
            target == pre.workspaces[last.arg]
            source_now == workspaces[pre.active]
            target_now == workspaces[last.arg]
            remaining == SelectSeq(source.tiled.windows,
                                   LAMBDA w : w # window)
        IN  /\ target_now.tiled.windows = <<window>> \o target.tiled.windows
            /\ source_now.tiled.windows = remaining
            /\ target_now.tiled.focus =
                  IF target.tiled.windows = <<>> THEN window
                  ELSE target.tiled.focus
            /\ remaining # <<>> =>
                  source_now.tiled.focus =
                      CyclicSuccessor(source.tiled.windows, window)
            /\ target_now.focus_type =
                  IF target.floated.windows = <<>> THEN TILE
                  ELSE target.focus_type

\* the last of two tiled windows moved to a workspace that has a tiled
\* window of its own
C20_Witness ==
    /\ TileMoveCase
    /\ Len(PreWorkspace.tiled.windows) = 2
    /\ PreWorkspace.tiled.focus = list_last(PreWorkspace.tiled.windows)
    /\ ~list_is_empty(pre.workspaces[last.arg].tiled.windows)

\* ------------------------------------------------------------------- C11
\* the state of workspace i is the default state of the layout of entry
\* link, over the bytes that layout owns
HoldsDefault(i, link) ==
    SubSeq(state[i], 1, default_state_size(link)) = default_state(link)

\* C11: after set_layout(L), next_layout and previous_layout the layout
\* cursor of the active workspace is L (the cyclic successor, the cyclic
\* predecessor) and its layout state is L's default state whatever the
\* state was before; next_layout then previous_layout returns the cursor
\* to the original layout, with its default state and not the state it
\* had; next_layout run as many times as there are layouts returns the
\* cursor to the original layout; the cursor and the state of every other
\* workspace are unchanged.
C11_SetLayout ==
    last.op \in {"set_layout", "next_layout", "previous_layout"} =>
        LET before == layout_hist.layout[active_workspace] IN
        /\ last.op = "set_layout" => layout[active_workspace] = last.arg
        /\ last.op = "next_layout" =>
              layout[active_workspace] = (before % NumLayouts) + 1
        /\ last.op = "previous_layout" =>
              layout[active_workspace] =
                  ((before + NumLayouts - 2) % NumLayouts) + 1
        /\ HoldsDefault(active_workspace, layout[active_workspace])
        /\ layout_hist.undone # 0 =>
              /\ layout[active_workspace] = layout_hist.undone
              /\ HoldsDefault(active_workspace, layout_hist.undone)
        /\ layout_hist.nexts = NumLayouts =>
              layout[active_workspace] = layout_hist.origin
        /\ \A i \in Indices \ {active_workspace} :
              /\ layout[i] = layout_hist.layout[i]
              /\ state[i] = layout_hist.state[i]

\* next_layout then previous_layout on a workspace other than the first,
\* whose state before the two calls was not the default state of its
\* layout, while another workspace holds a modified state
C11_Witness ==
    /\ last.op = "previous_layout"
    /\ layout_hist.undone # 0
    /\ active_workspace # 0
    /\ SubSeq(layout_hist.undone_state, 1,
              default_state_size(layout_hist.undone))
           # default_state(layout_hist.undone)
    /\ \E i \in Indices \ {active_workspace} : ~HoldsDefault(i, layout[i])

\* ------------------------------------------------------------------- C13
\* the last wait was interrupted by a signal and has been handled
InterruptHandled ==
    /\ count = -1
    /\ errno = EINTR
    /\ pc # "returned"

\* C13: the alarm handler only sets clock_tick_update (it changes neither
\* `running` nor runs a hook or a callback); when a wait returns
\* interrupted with clock_tick_update set, the flag is cleared and the
\* CLOCK_TICK hook runs exactly once before the next wait; when it returns
\* interrupted with the flag clear no hook runs; after an interrupted
\* wait no callback is dispatched and the loop goes back to its test of
\* `running`.
C13_InterruptedWait ==
    /\ loop_hist.step = "CatchAlarm" =>
          /\ clock_tick_update
          /\ running = loop_hist.was_running
          /\ loop_hist.ticks = 0
          /\ loop_hist.invoked = <<>>
    /\ InterruptHandled =>
          /\ loop_hist.ticks = (IF loop_hist.flag THEN 1 ELSE 0)
          /\ ~clock_tick_update
          /\ loop_hist.invoked = <<>>
    /\ (loop_hist.step = "AfterWait" /\ count = -1) => pc = "check"

\* an interrupted wait that found the flag set has been handled
C13_Witness ==
    /\ InterruptHandled
    /\ loop_hist.step = "AfterWait"
    /\ loop_hist.flag
    /\ loop_hist.ticks = 1
    /\ loop_hist.alarm_since = FALSE
    /\ alarm_pending

\* ------------------------------------------------------------------- C14
\* C14: when `running` becomes false while a round of k ready callbacks
\* is dispatched, each of the k callbacks is still invoked exactly once,
\* in the order reported; `running` is examined only at the top of the
\* loop, and once it is found false there the loop exits with no further
\* wait or dispatch.
C14_RoundCompletes ==
    /\ pc = "dispatch" =>
          /\ event_index < count
          /\ loop_hist.invoked = SubSeq(events, 1, event_index)
    /\ (loop_hist.step = "Dispatch" /\ pc # "dispatch") =>
          /\ pc = "check"
          /\ event_index = count
          /\ loop_hist.invoked = events
    /\ loop_hist.step = "Check" =>
          pc = (IF loop_hist.was_running THEN "call" ELSE "exit")
    /\ pc = "exit" => (loop_hist.step = "Check" /\ ~running)

\* a round of two callbacks or more is over, and `running` became false
\* before the last of them was invoked
C14_Witness ==
    /\ loop_hist.step = "Dispatch"
    /\ pc = "check"
    /\ count >= 2
    /\ loop_hist.stopped_at \in 0 .. (count - 2)
    /\ ~running
    /\ loop_hist.invoked = events

\* ------------------------------------------------------------------- C18
\* C18: once SIGINT has been delivered, wherever the loop was (in the
\* wait, in the dispatch, or between the test of `running` and the wait),
\* the loop eventually exits, provided callbacks return and the alarm
\* keeps firing.
C18_InterruptTerminates == (loop_hist.int_at # "none") ~> (pc = "exit")

\* the loop has exited after a SIGINT delivered between the test of
\* `running` and the wait
C18_Witness == pc = "exit" /\ loop_hist.int_at = "call"

\* ------------------------------------------------------------------- C19
\* C19: every run of the CLOCK_TICK hook comes after a delivery of SIGALRM
\* that is later than the previous run of the hook (or than the start of
\* the program): a wait interrupted by SIGINT or SIGCHLD alone, with no
\* alarm since the last tick, runs no CLOCK_TICK hook.
C19_TickFollowsAlarm == loop_hist.ticks > 0 => loop_hist.tick_alarmed

====
